---- MODULE Spec2Model ----
(***************************************************************************)
(* Model of the teaching classes of the goad_exercises notebooks:          *)
(*   notebooks/05_abtesting.ipynb    BetaPrior, Reward, MultiArmedBandit   *)
(*                                   and the experiment cell               *)
(*   notebooks/03_monte_carlo.ipynb  MonteCarloCirle, ApproxPi             *)
(*   notebooks/02_metropolis_hastings.ipynb  the cells that use Metropolis *)
(*                                   and Dist                              *)
(*   notebooks/04_probabilistic_modelling.ipynb  make_linear,              *)
(*                                   make_sine_wave                        *)
(*   README.md                       CampaignManager.evaluate_strategy     *)
(* Python lists are 0-based; the sequences here are 1-based, so arm k of   *)
(* the model is self.arms[k-1].  Probabilities are percentages (0.25 is    *)
(* 25); a float quotient n/d is kept as the fraction <<n, d>> in lowest    *)
(* terms.                                                                  *)
(***************************************************************************)
EXTENDS Integers, Sequences, FiniteSets, TLC

VARIABLES
    \* ---- 05_abtesting: MultiArmedBandit and the experiment cell ----
    priors,        \* the list[BetaPrior] the bandit was built from
    arms,          \* self.arms: the args (a, b) of each frozen beta
    rewards,       \* self.rewards: Reward with fields p and bernoulli
    last,          \* what the latest pull() did: sample, arm, paid, reward
    npulled,       \* how many times pull() selected each arm
    nwins,         \* how many of those pulls were paid a win
    i, j,          \* loop counters of the experiment cell
    totals,        \* total1, total2, ... of the report; <<>> before it
    \* ---- 03_monte_carlo: ApproxPi and its point generator ----
    max,           \* self.max
    report,        \* self.report
    inside,        \* self.inside
    total,         \* self.total
    log,           \* self.log
    pointgenerator,\* self.pointgenerator: the generator object
    point,         \* the pair most recently yielded: its point ...
    is_inside,     \* ... and its flag
    pc,            \* where run() is: "idle", "running", "returned", "raised"
    iter,          \* iterations of the for loop done by the current run()
    runs,          \* number of run() calls started on this instance
    probe,         \* the latest direct call of is_in_circle: point, result
    \* ---- 03_monte_carlo: the convergence cell ----
    instances,     \* every ApproxPi the cell has constructed, in order
    approx_pi,     \* the cell's approx_pi: the list run() returned
    avg_result,    \* the cell's avg_result
    thread,        \* how many iterations of the cell's for loop are done
    cell,          \* where the cell is: "loop", "running", "returned", "done"
    step,          \* iterations of the for loop done by the current run()
    \* ---- 02_metropolis_hastings: Dist and Metropolis ----
    d1,            \* the current distribution (loc, scale)
    d2,            \* the proposal returned by random_walk
    acc,           \* the latest accept(proposed, current) call
    \* ---- 04_probabilistic_modelling: the data files ----
    files,         \* content of each file of datadir, Absent if none
    call,          \* the latest make_linear / make_sine_wave call
    \* ---- README: CampaignManager of demo/abtesting.py ----
    csv,           \* rows of data/result/campaign_results.csv
    result,        \* what the latest evaluate_strategy returned
    remaining,     \* requests left in the current rate-limit window
    clock,         \* time, counted in evaluate_strategy calls
    nsuccess       \* number of evaluate_strategy calls that succeeded

banditVars == <<priors, arms, rewards, last, npulled, nwins, i, j, totals>>
piVars == <<max, report, inside, total, log, pointgenerator, point,
            is_inside, pc, iter, runs>>
convergeVars == <<instances, approx_pi, avg_result, thread, cell, step>>
mhVars == <<d1, d2, acc>>
fileVars == <<files, call>>
campaignVars == <<csv, result, remaining, clock, nsuccess>>
vars == <<priors, arms, rewards, last, npulled, nwins, i, j, totals,
          max, report, inside, total, log, pointgenerator, point,
          is_inside, pc, iter, runs, probe, instances, approx_pi,
          avg_result, thread, cell, step, d1, d2, acc, files, call,
          csv, result, remaining, clock, nsuccess>>

(***************************************************************************)
(* Bounds of the model.                                                    *)
(***************************************************************************)
\* the experiment cell runs 9 rounds of 50 pulls; the model runs fewer
Rounds == 1
PullsPerRound == 2
\* a Beta sample lies in (0, 1); the model keeps this many distinct values
SampleLevels == 2
\* largest `maximum` and `report` an ApproxPi is constructed with
MaxMaximum == 3
MaxReport == 2
\* run() calls made on one ApproxPi instance
MaxRuns == 2
\* coordinates are multiples of 1/PointResolution
PointResolution == 1
\* largest radius of a MonteCarloCirle, and next() calls of the check cells
MaxRadius == 2
MaxYields == 2
\* scales of a Dist are 1..MaxScale, log-probabilities -MaxLogProb..0
MaxScale == 3
MaxLogProb == 3
\* distinct noise samples make_linear / make_sine_wave can draw
NoiseDraws == 2
\* requests per rate-limit window (30 in the README) and calls made
RateLimit == 2
MaxCalls == 3
\* the email strategies 0 .. NumStrategies - 1
NumStrategies == 4

(***************************************************************************)
(* 05_abtesting.ipynb                                                      *)
(***************************************************************************)
BetaPrior(a, b, p) == [a |-> a, b |-> b, p |-> p]

\* priors of the experiment cell
ExperimentPriors ==
    <<BetaPrior(2, 2, 25), BetaPrior(2, 2, 30), BetaPrior(2, 2, 35)>>

\* priors of the first MultiArmedBandit cell
DemoPriors == <<BetaPrior(3, 7, 30), BetaPrior(4, 7, 35)>>

\* arms that never pay and that always pay
DegeneratePriors == <<BetaPrior(1, 1, 0), BetaPrior(1, 1, 100)>>

PriorChoices == {ExperimentPriors, DemoPriors, DegeneratePriors}

\* Reward.__init__
RewardInit(ps) ==
    [p |-> [k \in DOMAIN ps |-> ps[k].p],
     bernoulli |-> [k \in DOMAIN ps |-> ps[k].p]]

\* stats.bernoulli(p).rvs(): the outcomes that have non-zero probability
BernoulliRvs(p) == (IF p > 0 THEN {1} ELSE {}) \cup
                   (IF p < 100 THEN {0} ELSE {})

\* Reward.pay: bool(self.bernoulli[arm].rvs())
pay_other(rw, arm) == {x = 1 : x \in BernoulliRvs(rw.bernoulli[1])}

pay(rw, arm) == {x = 1 : x \in BernoulliRvs(rw.bernoulli[arm])}

\* the values a Beta(a, b) sample can take: the support does not depend
\* on a and b
rvs_mean(args) == {1 + (args[1] * (SampleLevels - 1)) \div (args[1] + args[2])}

rvs(args) == 1..SampleLevels

\* sample = [arm.rvs() for arm in self.arms]
Samples(as) == {s \in [DOMAIN as -> 1..SampleLevels] :
                   \A k \in DOMAIN as : s[k] \in rvs(as[k])}

\* np.argmax: the first index holding the maximum
argmin(sample) ==
    CHOOSE k \in DOMAIN sample :
        /\ \A m \in DOMAIN sample : sample[m] >= sample[k]
        /\ \A m \in DOMAIN sample : m < k => sample[m] > sample[k]

argmax(sample) ==
    CHOOSE k \in DOMAIN sample :
        /\ \A m \in DOMAIN sample : sample[m] <= sample[k]
        /\ \A m \in DOMAIN sample : m < k => sample[m] < sample[k]

\* the belief update of pull(): a, b = self.arms[arm].args; ...
update_swapped(as, arm, reward) ==
    IF reward THEN [as EXCEPT ![arm] = <<as[arm][1], as[arm][2] + 1>>]
              ELSE [as EXCEPT ![arm] = <<as[arm][1] + 1, as[arm][2]>>]

update_first(as, arm, reward) ==
    IF reward THEN [as EXCEPT ![1] = <<as[1][1] + 1, as[1][2]>>]
              ELSE [as EXCEPT ![1] = <<as[1][1], as[1][2] + 1>>]

update_all(as, arm, reward) ==
    [k \in DOMAIN as |->
        IF reward THEN <<as[k][1] + 1, as[k][2]>>
                  ELSE <<as[k][1], as[k][2] + 1>>]

update_both(as, arm, reward) ==
    IF reward THEN [as EXCEPT ![arm] = <<as[arm][1] + 1, as[arm][2] + 1>>]
              ELSE [as EXCEPT ![arm] = <<as[arm][1], as[arm][2] + 1>>]

update(as, arm, reward) ==
    IF reward THEN [as EXCEPT ![arm] = <<as[arm][1] + 1, as[arm][2]>>]
              ELSE [as EXCEPT ![arm] = <<as[arm][1], as[arm][2] + 1>>]

\* MultiArmedBandit.pull, in the case where the argmax is arm k
pullArm(k) ==
    \E sample \in Samples(arms) :
        LET arm == argmax(sample) IN
        /\ arm = k
        /\ \E reward \in pay(rewards, arm) :
              /\ arms' = update(arms, arm, reward)
              /\ last' = [sample |-> sample, arm |-> arm, paid |-> arm,
                          reward |-> reward]
              /\ nwins' = [nwins EXCEPT ![arm] = IF reward THEN @ + 1 ELSE @]
        /\ npulled' = [npulled EXCEPT ![arm] = @ + 1]
        /\ UNCHANGED <<priors, rewards>>

\* MultiArmedBandit.pull
pull == \E k \in DOMAIN arms : pullArm(k)

\* experiment cell: multiarmedbandit.pull() in the inner loop
ExperimentPull ==
    /\ i < Rounds
    /\ j < PullsPerRound
    /\ pull
    /\ j' = j + 1
    /\ UNCHANGED <<i, totals>>

\* experiment cell: multiarmedbandit.plot(...) closes a round
ExperimentPlot ==
    /\ i < Rounds
    /\ j = PullsPerRound
    /\ i' = i + 1
    /\ j' = 0
    /\ UNCHANGED <<priors, arms, rewards, last, npulled, nwins, totals>>

\* experiment cell: total_k = sum(multiarmedbandit.arms[k].args)
ExperimentReport ==
    /\ i = Rounds
    /\ totals = <<>>
    /\ totals' = [k \in DOMAIN arms |-> arms[k][1] + arms[k][2]]
    /\ UNCHANGED <<priors, arms, rewards, last, npulled, nwins, i, j>>

\* MultiArmedBandit.__init__ followed by the start of the experiment cell
InitBanditVars ==
    /\ priors \in PriorChoices
    /\ arms = [k \in DOMAIN priors |-> <<priors[k].a, priors[k].b>>]
    /\ rewards = RewardInit(priors)
    /\ last = [sample |-> <<>>, arm |-> 0, paid |-> 0, reward |-> FALSE]
    /\ npulled = [k \in DOMAIN priors |-> 0]
    /\ nwins = [k \in DOMAIN priors |-> 0]
    /\ i = 0
    /\ j = 0
    /\ totals = <<>>

(***************************************************************************)
(* 03_monte_carlo.ipynb                                                    *)
(***************************************************************************)
\* Point(x, y); the coordinates count units of 1/PointResolution
Point(x, y) == [x |-> x, y |-> y]

\* MonteCarloCirle.generate_points: x, y = self.dist.rvs(2) with
\* dist = stats.uniform(loc=-radius, scale=2 * radius)
generate_points_noloc(radius) ==
    {Point(x, y) : x \in 0..(2 * radius * PointResolution),
                   y \in 0..(2 * radius * PointResolution)}

generate_points(radius) ==
    {Point(x, y) : x \in (-radius * PointResolution)..(radius * PointResolution),
                   y \in (-radius * PointResolution)..(radius * PointResolution)}

\* MonteCarloCirle.is_in_circle
is_in_circle_strict(radius, pt) ==
    pt.x * pt.x + pt.y * pt.y
        < (radius * PointResolution) * (radius * PointResolution)

is_in_circle(radius, pt) ==
    pt.x * pt.x + pt.y * pt.y
        <= (radius * PointResolution) * (radius * PointResolution)

\* MonteCarloCirle.generate: what one next() on the generator can give,
\* the generator after it and the pair it yields
generate_once(gen) ==
    {[gen |-> [gen EXCEPT !.state = "finished", !.yielded = @ + 1],
      point |-> pt, flag |-> is_in_circle(gen.radius, pt)] :
        pt \in generate_points(gen.radius)}

generate(gen) ==
    {[gen |-> [gen EXCEPT !.state = "suspended", !.yielded = @ + 1],
      point |-> pt, flag |-> is_in_circle(gen.radius, pt)] :
        pt \in generate_points(gen.radius)}

RECURSIVE gcd(_, _)
gcd(a, b) == IF b = 0 THEN a ELSE gcd(b, a % b)

\* the float n / d of Python's true division, for n >= 0 and d > 0
TrueDivFloor(n, d) == <<n \div d, 1>>

TrueDiv(n, d) == <<n \div gcd(n, d), d \div gcd(n, d)>>

\* the value run() appends: 4 * self.inside / self.total
Estimate(ins, tot) == TrueDiv(4 * ins, tot)

\* if self.total % self.report == 0
ReportDueAlways(tot, rep) == TRUE

ReportDue(tot, rep) == tot % rep = 0

\* ApproxPi.run is called
RunStart ==
    /\ pc \in {"idle", "returned"}
    /\ runs < MaxRuns
    /\ pc' = "running"
    /\ iter' = 0
    /\ runs' = runs + 1
    /\ UNCHANGED <<max, report, inside, total, log, pointgenerator, point,
                   is_inside>>

\* one iteration of the for loop of run() that completes
RunIter ==
    /\ pc = "running"
    /\ iter < max
    /\ pointgenerator.state # "finished"
    /\ report # 0
    /\ \E y \in generate(pointgenerator) :
          LET tot == total + 1
              ins == IF y.flag THEN inside + 1 ELSE inside
          IN  /\ total' = tot
              /\ pointgenerator' = y.gen
              /\ point' = y.point
              /\ is_inside' = y.flag
              /\ inside' = ins
              /\ log' = IF ReportDue(tot, report)
                          THEN Append(log, Estimate(ins, tot))
                          ELSE log
    /\ iter' = iter + 1
    /\ UNCHANGED <<max, report, pc, runs>>

\* one iteration of the for loop of run() that raises: the modulo by a
\* zero report (ZeroDivisionError), or next() on a finished generator
\* (StopIteration)
RunIterRaise ==
    /\ pc = "running"
    /\ iter < max
    /\ \/ /\ pointgenerator.state = "finished"
          /\ total' = total + 1
          /\ UNCHANGED <<pointgenerator, point, is_inside, inside>>
       \/ /\ pointgenerator.state # "finished"
          /\ report = 0
          /\ \E y \in generate(pointgenerator) :
                /\ total' = total + 1
                /\ pointgenerator' = y.gen
                /\ point' = y.point
                /\ is_inside' = y.flag
                /\ inside' = IF y.flag THEN inside + 1 ELSE inside
    /\ pc' = "raised"
    /\ UNCHANGED <<max, report, log, iter, runs>>

\* the for loop of run() is exhausted: return self.log
RunReturnIndented ==
    /\ pc = "running"
    /\ (iter = max \/ iter >= 1)
    /\ pc' = "returned"
    /\ UNCHANGED <<max, report, inside, total, log, pointgenerator, point,
                   is_inside, iter, runs>>

RunReturn ==
    /\ pc = "running"
    /\ iter = max
    /\ pc' = "returned"
    /\ UNCHANGED <<max, report, inside, total, log, pointgenerator, point,
                   is_inside, iter, runs>>

\* ApproxPi.__init__
InitPiVars ==
    /\ max \in 0..MaxMaximum
    /\ report \in 0..MaxReport
    /\ pointgenerator = [radius |-> 1, state |-> "created", yielded |-> 0]
    /\ inside = 0
    /\ total = 0
    /\ log = <<>>
    /\ point = Point(0, 0)
    /\ is_inside = FALSE
    /\ pc = "idle"
    /\ iter = 0
    /\ runs = 0
    /\ probe = [called |-> FALSE, point |-> Point(0, 0), result |-> FALSE]

\* the points is_in_circle is asked about: those on the axes and on the
\* diagonals of the square and of a margin around it
ProbePoints(radius) ==
    LET side == (-radius * PointResolution - 1)..(radius * PointResolution + 1)
    IN  {pt \in {Point(x, y) : x \in side, y \in side} :
            pt.x = 0 \/ pt.y = 0 \/ pt.x = pt.y \/ pt.x = -pt.y}

\* check cell and scatter loop: next(pointgenerator)
CheckNext ==
    /\ pointgenerator.state # "finished"
    /\ pointgenerator.yielded < MaxYields
    /\ \E y \in generate(pointgenerator) :
          /\ pointgenerator' = y.gen
          /\ point' = y.point
          /\ is_inside' = y.flag
    /\ UNCHANGED <<max, report, inside, total, log, pc, iter, runs, probe>>

\* a direct call circle.is_in_circle(pt)
CallIsInCircle ==
    /\ \E pt \in ProbePoints(pointgenerator.radius) :
          probe' = [called |-> TRUE, point |-> pt,
                    result |-> is_in_circle(pointgenerator.radius, pt)]
    /\ UNCHANGED piVars

\* pointgenerator = MonteCarloCirle(radius=r).generate()
InitCircleVars ==
    /\ \E r \in 1..MaxRadius :
          pointgenerator = [radius |-> r, state |-> "created", yielded |-> 0]
    /\ max = 0
    /\ report = 1
    /\ inside = 0
    /\ total = 0
    /\ log = <<>>
    /\ point = Point(0, 0)
    /\ is_inside = FALSE
    /\ pc = "idle"
    /\ iter = 0
    /\ runs = 0
    /\ probe = [called |-> FALSE, point |-> Point(0, 0), result |-> FALSE]

\* the convergence cell: threads = 16, max_runs = 20000 and
\* report_every = 100; the model runs fewer threads of fewer points
threads == 2
max_runs == MaxMaximum
report_every == MaxReport

\* ApproxPi.__init__: the instance that ApproxPi(maximum, report) creates
ApproxPi_class_level(maximum, rep) ==
    IF instances = <<>>
      THEN [max |-> maximum,
            pointgenerator |-> [radius |-> 1, state |-> "created",
                                yielded |-> 0],
            inside |-> 0, total |-> 0, report |-> rep, log |-> <<>>]
      ELSE [instances[Len(instances)] EXCEPT !.max = maximum,
                                             !.report = rep]

ApproxPi(maximum, rep) ==
    [max |-> maximum,
     pointgenerator |-> [radius |-> 1, state |-> "created", yielded |-> 0],
     inside |-> 0, total |-> 0, report |-> rep, log |-> <<>>]

\* the body of the for loop of run() on the instance `self`, given what
\* next(self.pointgenerator) gave
run_body(self, y) ==
    LET tot == self.total + 1
        ins == IF y.flag THEN self.inside + 1 ELSE self.inside
    IN  [self EXCEPT !.total = tot,
                     !.pointgenerator = y.gen,
                     !.inside = ins,
                     !.log = IF ReportDue(tot, self.report)
                               THEN Append(@, Estimate(ins, tot))
                               ELSE @]

\* for i in range(threads): ApproxPi(maximum=max_runs, report=report_every)
\* is constructed and its run() is called
ThreadConstruct ==
    /\ cell = "loop"
    /\ thread < threads
    /\ instances' = Append(instances, ApproxPi(max_runs, report_every))
    /\ cell' = "running"
    /\ step' = 0
    /\ UNCHANGED <<approx_pi, avg_result, thread>>

\* one iteration of the for loop of run() on the instance just constructed
ThreadIter ==
    /\ cell = "running"
    /\ step < instances[Len(instances)].max
    /\ instances[Len(instances)].pointgenerator.state # "finished"
    /\ instances[Len(instances)].report # 0
    /\ \E y \in generate(instances[Len(instances)].pointgenerator) :
          instances' = [instances EXCEPT ![Len(instances)] = run_body(@, y)]
    /\ step' = step + 1
    /\ UNCHANGED <<approx_pi, avg_result, thread, cell>>

\* run() returns self.log, which the cell binds to approx_pi and plots
ThreadReturn ==
    /\ cell = "running"
    /\ step = instances[Len(instances)].max
    /\ approx_pi' = instances[Len(instances)].log
    /\ cell' = "returned"
    /\ UNCHANGED <<instances, avg_result, thread, step>>

\* avg_result.append(approx_pi[-1]) and the next i
ThreadKeep ==
    /\ cell = "returned"
    /\ approx_pi # <<>>
    /\ avg_result' = Append(avg_result, approx_pi[Len(approx_pi)])
    /\ thread' = thread + 1
    /\ cell' = "loop"
    /\ UNCHANGED <<instances, approx_pi, step>>

\* range(threads) is exhausted: the reference line, diff and the print
CellReport ==
    /\ cell = "loop"
    /\ thread = threads
    /\ cell' = "done"
    /\ UNCHANGED <<instances, approx_pi, avg_result, thread, step>>

\* avg_result = [] at the top of the cell; nothing is constructed yet
InitConvergeVars ==
    /\ instances = <<>>
    /\ approx_pi = <<>>
    /\ avg_result = <<>>
    /\ thread = 0
    /\ cell = "loop"
    /\ step = 0

(***************************************************************************)
(* 02_metropolis_hastings.ipynb: Dist and Metropolis are imported from the *)
(* module `inference`; they are modelled from what the notebook says of    *)
(* them.  Log-probabilities are integers.  The uniform draw u of accept is *)
(* kept as 2 * ln(u), an odd negative number, so that u < exp(p - c) is    *)
(* draw < 2 * (p - c) and no draw ties with a ratio.                       *)
(***************************************************************************)
Dist(loc, scale) == [loc |-> loc, scale |-> scale]

Locs == -1..1

LogProbs == (-MaxLogProb)..0

LogDraws == {-(2 * k + 1) : k \in 0..MaxLogProb}

\* Metropolis.random_walk(d): the argument after the call and the proposal
random_walk_inplace(d) ==
    {[dist |-> Dist(d.loc, sc), proposal |-> Dist(d.loc, sc)] :
        sc \in 1..MaxScale}

random_walk(d) ==
    {[dist |-> d, proposal |-> Dist(d.loc, sc)] : sc \in 1..MaxScale}

\* Metropolis.accept(proposed, current), for the uniform draw it makes
accept_swapped(proposed, current, draw) ==
    IF current > proposed THEN TRUE ELSE draw < 2 * (current - proposed)

accept_greedy(proposed, current, draw) == proposed >= current

accept(proposed, current, draw) ==
    IF proposed > current THEN TRUE ELSE draw < 2 * (proposed - current)

\* d2 = metropolis.random_walk(d1)
RandomWalk ==
    /\ \E r \in random_walk(d1) :
          /\ d1' = r.dist
          /\ d2' = <<r.proposal>>
    /\ UNCHANGED acc

\* metropolis.accept(proposed, current) that returns res
AcceptCase(proposed, current, res) ==
    /\ \E draw \in LogDraws :
          /\ accept(proposed, current, draw) = res
          /\ acc' = [called |-> TRUE, proposed |-> proposed,
                      current |-> current, draw |-> draw, result |-> res]
    /\ UNCHANGED <<d1, d2>>

\* metropolis.accept(proposed, current)
Accept ==
    \E proposed \in LogProbs, current \in LogProbs, res \in BOOLEAN :
        AcceptCase(proposed, current, res)

\* d1 = Dist(loc, scale); no proposal and no accept call yet
InitMHVars ==
    /\ d1 \in {Dist(l, sc) : l \in Locs, sc \in 1..MaxScale}
    /\ d2 = <<>>
    /\ acc = [called |-> FALSE, proposed |-> 0, current |-> 0, draw |-> -1,
               result |-> FALSE]

(***************************************************************************)
(* 04_probabilistic_modelling.ipynb: make_linear and make_sine_wave        *)
(***************************************************************************)
\* the files of the two cells that call the functions
Filenames == {"linear_a2_b4.csv", "sine_a3_f2_s0.2.csv"}

NoFile == [exists |-> FALSE, kind |-> "none", noise |-> 0]

\* a CSV written by to_csv: its columns and the noise sample in them
Content(kind, n) == [exists |-> TRUE, kind |-> kind, noise |-> n]

\* make_linear(filename): the file system after it and what it returns
make_linear_always(fs, filename) ==
    {[files |-> [fs EXCEPT ![filename] = Content("linear", n)],
      returned |-> filename] : n \in 1..NoiseDraws}

make_linear(fs, filename) ==
    IF fs[filename].exists
       THEN {[files |-> fs, returned |-> filename]}
       ELSE {[files |-> [fs EXCEPT ![filename] = Content("linear", n)],
              returned |-> filename] : n \in 1..NoiseDraws}

\* make_sine_wave(filename, a, f, s)
make_sine_wave(fs, filename) ==
    IF fs[filename].exists
       THEN {[files |-> fs, returned |-> filename]}
       ELSE {[files |-> [fs EXCEPT ![filename] = Content("sine", n)],
              returned |-> filename] : n \in 1..NoiseDraws}

\* a cell calls make_linear(filename, ...)
MakeLinear ==
    \E f \in Filenames : \E r \in make_linear(files, f) :
        /\ files' = r.files
        /\ call' = [fn |-> "make_linear", filename |-> f,
                    existed |-> files[f].exists, returned |-> r.returned]

\* a cell calls make_sine_wave(filename, ...)
MakeSineWave ==
    \E f \in Filenames : \E r \in make_sine_wave(files, f) :
        /\ files' = r.files
        /\ call' = [fn |-> "make_sine_wave", filename |-> f,
                    existed |-> files[f].exists, returned |-> r.returned]

\* datadir before the first call: any file may be left from an earlier run
InitFileVars ==
    /\ files \in [Filenames ->
                    {NoFile} \cup {Content(k, n) : k \in {"linear", "sine"},
                                                  n \in 1..NoiseDraws}]
    /\ call = [fn |-> "none", filename |-> "", existed |-> FALSE,
                returned |-> ""]

(***************************************************************************)
(* README.md: CampaignManager, QueryAPI and FileHandler of                 *)
(* demo/abtesting.py, modelled from the README.  An Optional[int] is a     *)
(* sequence of at most one element: <<>> is None.                          *)
(***************************************************************************)
\* QueryAPI.get_campaign: what the server can answer
get_campaign(rem) ==
    IF rem = 0
       THEN {[error |-> "rate_limit", opened |-> 0]}
       ELSE {[error |-> "none", opened |-> 0],
             [error |-> "none", opened |-> 1],
             [error |-> "other", opened |-> 0]}

\* evaluate_strategy: the value it hands back for an answer
returned_value_uncaught(answer) ==
    [raised |-> answer.error # "none",
     value |-> IF answer.error = "none" THEN <<answer.opened>> ELSE <<>>]

returned_value(answer) ==
    [raised |-> FALSE,
     value |-> IF answer.error = "none" THEN <<answer.opened>> ELSE <<>>]

\* evaluate_strategy: "if successful, it calls file_handler.store_result()"
should_store_always(answer) == TRUE

should_store(answer) == answer.error = "none"

\* FileHandler.store_result: append one row to the CSV
store_result(rows, strategy, opened, now) ==
    Append(rows, [strategy |-> strategy, opened |-> opened,
                  timestamp |-> now, timezone |-> "Europe/Amsterdam"])

\* CampaignManager.evaluate_strategy(strategy)
EvaluateStrategy ==
    /\ clock < MaxCalls
    /\ \E strategy \in 0..(NumStrategies - 1) :
       \E answer \in get_campaign(remaining) :
          /\ result' = [called |-> TRUE, strategy |-> strategy,
                         error |-> answer.error, opened |-> answer.opened,
                         raised |-> returned_value(answer).raised,
                         value |-> returned_value(answer).value]
          /\ csv' = IF should_store(answer)
                       THEN store_result(csv, strategy, answer.opened, clock)
                       ELSE csv
          /\ nsuccess' = IF answer.error = "none" THEN nsuccess + 1
                                                   ELSE nsuccess
          /\ remaining' = IF answer.error = "none" THEN remaining - 1
                                                    ELSE remaining
    /\ clock' = clock + 1

\* the rate-limit window of the server resets
WindowReset ==
    /\ remaining < RateLimit
    /\ remaining' = RateLimit
    /\ UNCHANGED <<csv, result, clock, nsuccess>>

\* a first run of the script: empty CSV, a full window or a used-up one
InitCampaignVars ==
    /\ csv = <<>>
    /\ result = [called |-> FALSE, strategy |-> 0, error |-> "none",
                  opened |-> 0, raised |-> FALSE, value |-> <<>>]
    /\ remaining \in 0..RateLimit
    /\ clock = 0
    /\ nsuccess = 0

(***************************************************************************)
(* Specifications                                                          *)
(***************************************************************************)
\* each notebook runs on its own: while one is modelled the objects of
\* the others stay as constructed
IdleBandit == InitBanditVars /\ priors = DemoPriors
IdlePi == InitPiVars /\ max = 0 /\ report = 1
IdleConverge == InitConvergeVars
IdleMH == InitMHVars /\ d1 = Dist(0, 1)
IdleFiles == InitFileVars /\ files = [f \in Filenames |-> NoFile]
IdleCampaign == InitCampaignVars /\ remaining = RateLimit

\* the bandit notebook; an ApproxPi exists but is not run
InitBandit ==
    /\ InitBanditVars
    /\ InitPiVars
    /\ max = 0
    /\ report = 1
    /\ IdleMH /\ IdleFiles /\ IdleCampaign /\ IdleConverge

NextBandit ==
    \/ ExperimentPull /\ UNCHANGED <<convergeVars, piVars, probe, mhVars, fileVars, campaignVars>>
    \/ ExperimentPlot /\ UNCHANGED <<convergeVars, piVars, probe, mhVars, fileVars, campaignVars>>
    \/ ExperimentReport /\ UNCHANGED <<convergeVars, piVars, probe, mhVars, fileVars, campaignVars>>

SpecBandit == InitBandit /\ [][NextBandit]_vars

\* the Monte Carlo notebook; a bandit exists but is not pulled
InitPi ==
    /\ InitPiVars
    /\ InitBanditVars
    /\ priors = DemoPriors
    /\ IdleMH /\ IdleFiles /\ IdleCampaign /\ IdleConverge

NextPi ==
    \/ RunStart /\ UNCHANGED <<convergeVars, banditVars, probe, mhVars, fileVars, campaignVars>>
    \/ RunIter /\ UNCHANGED <<convergeVars, banditVars, probe, mhVars, fileVars, campaignVars>>
    \/ RunIterRaise /\ UNCHANGED <<convergeVars, banditVars, probe, mhVars, fileVars, campaignVars>>
    \/ RunReturn /\ UNCHANGED <<convergeVars, banditVars, probe, mhVars, fileVars, campaignVars>>

SpecPi == InitPi /\ [][NextPi]_vars

\* the check cells of the Monte Carlo notebook: a MonteCarloCirle of any
\* radius, its generator and direct calls of is_in_circle
InitCircle ==
    /\ InitCircleVars
    /\ IdleBandit /\ IdleMH /\ IdleFiles /\ IdleCampaign /\ IdleConverge

NextCircle ==
    \/ CheckNext /\ UNCHANGED <<convergeVars, banditVars, mhVars, fileVars, campaignVars>>
    \/ CallIsInCircle /\ UNCHANGED <<convergeVars, banditVars, mhVars, fileVars, campaignVars>>

SpecCircle == InitCircle /\ [][NextCircle]_vars

\* the convergence cell of the Monte Carlo notebook
InitConverge ==
    /\ InitConvergeVars
    /\ IdleBandit /\ IdlePi /\ IdleMH /\ IdleFiles /\ IdleCampaign

NextConverge ==
    \/ ThreadConstruct /\ UNCHANGED <<banditVars, piVars, probe, mhVars, fileVars, campaignVars>>
    \/ ThreadIter /\ UNCHANGED <<banditVars, piVars, probe, mhVars, fileVars, campaignVars>>
    \/ ThreadReturn /\ UNCHANGED <<banditVars, piVars, probe, mhVars, fileVars, campaignVars>>
    \/ ThreadKeep /\ UNCHANGED <<banditVars, piVars, probe, mhVars, fileVars, campaignVars>>
    \/ CellReport /\ UNCHANGED <<banditVars, piVars, probe, mhVars, fileVars, campaignVars>>

SpecConverge == InitConverge /\ [][NextConverge]_vars

\* the Metropolis-Hastings notebook
InitMH ==
    /\ InitMHVars
    /\ IdleBandit /\ IdlePi /\ IdleFiles /\ IdleCampaign /\ IdleConverge

NextMH ==
    \/ RandomWalk /\ UNCHANGED <<convergeVars, banditVars, piVars, probe, fileVars, campaignVars>>
    \/ Accept /\ UNCHANGED <<convergeVars, banditVars, piVars, probe, fileVars, campaignVars>>

SpecMH == InitMH /\ [][NextMH]_vars

\* the data cells of the probabilistic modelling notebook
InitFiles ==
    /\ InitFileVars
    /\ IdleBandit /\ IdlePi /\ IdleMH /\ IdleCampaign /\ IdleConverge

NextFiles ==
    \/ MakeLinear /\ UNCHANGED <<convergeVars, banditVars, piVars, probe, mhVars, campaignVars>>
    \/ MakeSineWave /\ UNCHANGED <<convergeVars, banditVars, piVars, probe, mhVars, campaignVars>>

SpecFiles == InitFiles /\ [][NextFiles]_vars

\* the demo script of the A/B testing challenge
InitCampaign ==
    /\ InitCampaignVars
    /\ IdleBandit /\ IdlePi /\ IdleMH /\ IdleFiles /\ IdleConverge

NextCampaign ==
    \/ EvaluateStrategy /\ UNCHANGED <<convergeVars, banditVars, piVars, probe, mhVars, fileVars>>
    \/ WindowReset /\ UNCHANGED <<convergeVars, banditVars, piVars, probe, mhVars, fileVars>>

SpecCampaign == InitCampaign /\ [][NextCampaign]_vars

(***************************************************************************)
(* Properties of MultiArmedBandit (checked under SpecBandit)               *)
(***************************************************************************)
\* C1: in pull(), a win adds exactly 1 to the selected arm's a and leaves
\* its b alone; a loss adds exactly 1 to its b and leaves its a alone.
WinAddsToALossAddsToB ==
    [][npulled' # npulled =>
         LET k == last'.arm IN
         IF last'.reward
            THEN arms'[k][1] = arms[k][1] + 1 /\ arms'[k][2] = arms[k][2]
            ELSE arms'[k][2] = arms[k][2] + 1 /\ arms'[k][1] = arms[k][1]]_vars

\* a state in which some arm has recorded a win and some arm a loss
SeenWinAndLoss ==
    /\ \E k \in DOMAIN arms : arms[k][1] > priors[k].a
    /\ \E k \in DOMAIN arms : arms[k][2] > priors[k].b

\* C2: pull() draws one sample per arm and selects an arm holding the
\* maximum sample; the reward is requested for that arm and the belief of
\* that arm, and of no other, is updated.
PullUpdatesArgmaxArm ==
    [][npulled' # npulled =>
         LET k == last'.arm IN
         /\ DOMAIN last'.sample = DOMAIN arms
         /\ k \in DOMAIN arms
         /\ \A m \in DOMAIN arms : last'.sample[m] <= last'.sample[k]
         /\ last'.paid = k
         /\ npulled'[k] = npulled[k] + 1
         /\ arms'[k] # arms[k]
         /\ \A m \in DOMAIN arms : m # k => arms'[m] = arms[m]]_vars

\* the third arm won the draw with a sample strictly above the others
ThirdArmSelected ==
    /\ last.arm = 3
    /\ last.sample[3] > last.sample[1]
    /\ last.sample[3] > last.sample[2]
    /\ arms[3] # <<priors[3].a, priors[3].b>>

\* C3 as stated: the reported total of an arm (the sum a + b) is the number
\* of times the arm was pulled, and the totals add up to the number of
\* pulls.
ReportedTotalIsPullCount ==
    (priors = ExperimentPriors /\ totals # <<>>) =>
        /\ \A k \in DOMAIN totals : totals[k] = npulled[k]
        /\ \A k \in DOMAIN arms : arms[k][1] + arms[k][2] = npulled[k]

\* C4: whatever the beliefs, every arm can be the one the next pull()
\* selects.
ExplorationNeverShutOff == \A k \in DOMAIN arms : ENABLED pullArm(k)

\* beliefs that a greedy choice would never leave: one arm has at least two
\* wins more than its prior, another arm has never been pulled
LopsidedBeliefs ==
    \E k, m \in DOMAIN arms :
        /\ arms[k][1] >= priors[k].a + 2
        /\ npulled[m] = 0

\* C5: no pull changes Reward.p or the Bernoulli distributions, and what
\* pay(arm) returns is an outcome of that arm's own true p: a win needs
\* p > 0, a loss needs p < 1.
TrueRatesAreFixed ==
    [][/\ rewards' = rewards
       /\ rewards.p = [k \in DOMAIN priors |-> priors[k].p]
       /\ npulled' # npulled =>
            /\ last'.reward => rewards.p[last'.arm] > 0
            /\ ~last'.reward => rewards.p[last'.arm] < 100]_vars

\* both arms of the degenerate bandit were pulled: beliefs moved, rates not
DegenerateArmsPulled ==
    /\ priors = DegeneratePriors
    /\ npulled[1] > 0
    /\ npulled[2] > 0
    /\ arms[2][1] > priors[2].a

\* the experiment cell has printed its report
ExperimentDone == priors = ExperimentPriors /\ totals # <<>>

\* arm k has been pulled more often than each other arm
MostPulled(k) == \A m \in DOMAIN npulled : m # k => npulled[k] > npulled[m]

\* arm k has the largest total of the report
LargestTotal(k) == \A m \in DOMAIN totals : m # k => totals[k] > totals[m]

\* C6 as stated: at the end of the experiment the arm with the best true
\* rate (the third) has been pulled more often than each other arm.
BestArmEndsUpPreferred == ExperimentDone => MostPulled(3)

\* C6 amended: at the end of the experiment the pulls add up to
\* Rounds * PullsPerRound, and the arm with the largest reported total is
\* the arm the draws selected most often, whichever arm that is.
PreferredArmIsMostSelected ==
    ExperimentDone =>
        /\ npulled[1] + npulled[2] + npulled[3] = Rounds * PullsPerRound
        /\ \A k \in DOMAIN arms : LargestTotal(k) <=> MostPulled(k)

\* an experiment at whose end the best arm is the preferred one
BestArmPreferredThisRun == ExperimentDone /\ MostPulled(3) /\ LargestTotal(3)

(***************************************************************************)
(* Properties of ApproxPi and MonteCarloCirle (checked under SpecPi)       *)
(***************************************************************************)
\* C7: every value run() appends to the log equals 4 * inside / total for
\* the counters at that moment, where total counts the points drawn so far
\* and inside those of them whose flag was true.
LogEntryIsFourInsideOverTotal ==
    [][/\ total' # total =>
            /\ total' = total + 1
            /\ total' = pointgenerator'.yielded
            /\ inside' = inside + (IF is_inside' THEN 1 ELSE 0)
       /\ log' # log =>
            /\ Len(log') = Len(log) + 1
            /\ SubSeq(log', 1, Len(log)) = log
            /\ LET e == log'[Len(log')] IN
               /\ e[2] > 0
               /\ e[1] * total' = 4 * inside' * e[2]]_vars

\* the log holds an estimate that is not a whole number
FractionalEstimateLogged ==
    /\ Len(log) >= 2
    /\ \E k \in DOMAIN log : log[k][2] > 1

\* C8: at every point of a run len(log) = floor(total / report), so the
\* first run of an instance returns floor(maximum / report) entries.
LogLengthIsTotalOverReport ==
    report >= 1 =>
        /\ Len(log) = total \div report
        /\ (pc = "returned" /\ runs = 1) => Len(log) = max \div report

\* the test cell scaled down: maximum = 3, report = 2 returns 1 entry
FirstRunReturnedOneEntry ==
    /\ pc = "returned"
    /\ runs = 1
    /\ max = 3
    /\ report = 2
    /\ Len(log) = 1

\* C9: the first run() of an instance with report >= 1 returns after
\* exactly `maximum` iterations, with total = maximum points drawn; while
\* it runs it has done at most `maximum` iterations and its next step (an
\* iteration or the return) is never blocked.
FirstRunDrawsMaximumPoints ==
    (runs = 1 /\ report >= 1) =>
        /\ pc \in {"running", "returned"}
        /\ pc = "running" =>
              /\ iter <= max
              /\ total = iter
              /\ ENABLED (RunIter \/ RunReturn)
        /\ pc = "returned" =>
              /\ iter = max
              /\ total = max
              /\ pointgenerator.yielded = max

\* a first run of more than one iteration has returned
FirstRunReturned ==
    /\ pc = "returned"
    /\ runs = 1
    /\ report >= 1
    /\ max >= 2
    /\ total = max

\* C10: the generator never finishes, and every next() on it yields one
\* pair whose flag is x^2 + y^2 <= radius^2 for the point of that pair.
GenerateIsEndless ==
    [][/\ pointgenerator'.state # "finished"
       /\ pointgenerator' # pointgenerator =>
            /\ pointgenerator'.yielded = pointgenerator.yielded + 1
            /\ pointgenerator'.radius = pointgenerator.radius
            /\ point' \in generate_points(pointgenerator.radius)
            /\ is_inside' <=>
                 (point'.x * point'.x + point'.y * point'.y
                    <= (pointgenerator.radius * PointResolution)
                         * (pointgenerator.radius * PointResolution))]_vars

\* the generator has yielded several pairs, the latest a point outside
SeveralPointsYielded ==
    /\ pointgenerator.yielded >= 3
    /\ pointgenerator.state = "suspended"
    /\ ~is_inside

(***************************************************************************)
(* Properties of MonteCarloCirle (checked under SpecCircle)                *)
(***************************************************************************)
\* C11: every point the generator yields lies in the square around the
\* circle: -r <= x <= r and -r <= y <= r.
PointsLieInSquare ==
    pointgenerator.yielded > 0 =>
        LET r == pointgenerator.radius * PointResolution IN
        /\ -r <= point.x /\ point.x <= r
        /\ -r <= point.y /\ point.y <= r

\* a circle of radius 2 has yielded the upper left corner of its square
CornerPointYielded ==
    /\ pointgenerator.radius = 2
    /\ pointgenerator.yielded > 0
    /\ point = Point(-2 * PointResolution, 2 * PointResolution)

\* C12: is_in_circle(point) is true exactly when x^2 + y^2 <= radius^2,
\* boundary included, whatever point was generated before.
IsInCircleIsPythagoras ==
    probe.called =>
        (probe.result <=>
            probe.point.x * probe.point.x + probe.point.y * probe.point.y
              <= (pointgenerator.radius * PointResolution)
                   * (pointgenerator.radius * PointResolution))

\* a point on the circle is reported inside after a point outside the
\* circle was generated
BoundaryPointInside ==
    /\ probe.called
    /\ probe.point = Point(pointgenerator.radius * PointResolution, 0)
    /\ probe.result
    /\ pointgenerator.yielded > 0
    /\ ~is_inside

(***************************************************************************)
(* Properties of Metropolis (checked under SpecMH)                         *)
(***************************************************************************)
\* C13: accept(proposed, current) returns True in every call in which the
\* proposed log-probability is greater than the current one; no such call
\* can return False.
MoreLikelyAlwaysAccepted ==
    /\ (acc.called /\ acc.proposed > acc.current) => acc.result
    /\ \A p \in LogProbs, c \in LogProbs :
          p > c => ~ENABLED AcceptCase(p, c, FALSE)

\* a more likely proposal was accepted although the draw was the highest
LikelyAcceptedOnHighDraw ==
    /\ acc.called
    /\ acc.proposed > acc.current
    /\ acc.draw = -1
    /\ acc.result

\* C14: a less likely proposal is accepted exactly when the uniform draw
\* is below exp(proposed - current), and for every such proposal both
\* accepting and rejecting are possible.
LessLikelyAcceptedByChance ==
    /\ (acc.called /\ acc.proposed < acc.current) =>
          (acc.result <=> acc.draw < 2 * (acc.proposed - acc.current))
    /\ \A p \in LogProbs, c \in LogProbs :
          p < c => /\ ENABLED AcceptCase(p, c, TRUE)
                   /\ ENABLED AcceptCase(p, c, FALSE)

\* a less likely proposal was accepted
LessLikelyAccepted ==
    /\ acc.called
    /\ acc.proposed < acc.current
    /\ acc.result

\* C15: random_walk(d) returns a proposal with the loc of d and a scale
\* above 0, and d itself is what it was.
RandomWalkKeepsMeanAndInput ==
    [][/\ d1' = d1
       /\ d2' # d2 =>
            /\ Len(d2') = 1
            /\ d2'[1].loc = d1.loc
            /\ d2'[1].scale > 0]_vars

\* a proposal with another scale and the same non-zero mean
ProposalWithOtherScale ==
    /\ d2 # <<>>
    /\ d1.loc # 0
    /\ d2[1].loc = d1.loc
    /\ d2[1].scale # d1.scale

EvaluateReturnsOpenedOrNone ==
    [][clock' # clock =>
         /\ ~result'.raised
         /\ result'.error = "none" => result'.value = <<result'.opened>>
         /\ result'.error = "none" => result'.opened \in {0, 1}
         /\ result'.error # "none" => result'.value = <<>>
         /\ remaining = 0 => result'.value = <<>>]_vars

\* a call hit the rate limit after earlier calls had succeeded
RateLimitHit ==
    /\ result.called
    /\ result.error = "rate_limit"
    /\ result.value = <<>>
    /\ Len(csv) > 0

\* C18: a successful evaluate_strategy appends exactly one row (strategy,
\* opened, timestamp, timezone), a failed one appends nothing, rows are
\* never changed or removed, and the CSV has one row per success.
OneRowPerSuccess ==
    [][/\ Len(csv') = nsuccess'
       /\ Len(csv') >= Len(csv)
       /\ SubSeq(csv', 1, Len(csv)) = csv
       /\ clock' # clock =>
            IF result'.value # <<>>
               THEN /\ Len(csv') = Len(csv) + 1
                    /\ csv'[Len(csv')].strategy = result'.strategy
                    /\ csv'[Len(csv')].opened = result'.opened
                    /\ csv'[Len(csv')].timestamp = clock
                    /\ DOMAIN csv'[Len(csv')] =
                         {"strategy", "opened", "timestamp", "timezone"}
               ELSE csv' = csv]_vars

\* two rows stored and at least one call that failed
RowsFewerThanCalls ==
    /\ Len(csv) = 2
    /\ clock > Len(csv)
    /\ result.value = <<>>

(***************************************************************************)
(* Further properties of MultiArmedBandit (checked under SpecBandit)       *)
(***************************************************************************)
\* C19: a pull changes the (a, b) of exactly one arm, the selected one;
\* the other arms, the number of arms and the reward model stay.
PullChangesOneArm ==
    [][npulled' # npulled =>
         /\ DOMAIN arms' = DOMAIN arms
         /\ Cardinality({k \in DOMAIN arms : arms'[k] # arms[k]}) = 1
         /\ arms'[last'.arm] # arms[last'.arm]
         /\ rewards' = rewards
         /\ priors' = priors]_vars

\* only the middle arm of three was pulled so far
OnlyMiddleArmPulled ==
    /\ Len(arms) = 3
    /\ npulled = <<0, 1, 0>>
    /\ arms[1] = <<priors[1].a, priors[1].b>>
    /\ arms[3] = <<priors[3].a, priors[3].b>>
    /\ arms[2] # <<priors[2].a, priors[2].b>>

\* C20: for every arm a - a0 is its number of wins, b - b0 its number of
\* losses and their sum the number of times it was selected; at the end of
\* the experiment the totals add up to the priors (12) plus the pulls.
BeliefsCountWinsAndLosses ==
    /\ \A k \in DOMAIN arms :
          /\ arms[k][1] - priors[k].a = nwins[k]
          /\ arms[k][2] - priors[k].b = npulled[k] - nwins[k]
          /\ (arms[k][1] - priors[k].a) + (arms[k][2] - priors[k].b)
                = npulled[k]
    /\ ExperimentDone =>
          totals[1] + totals[2] + totals[3] = 12 + Rounds * PullsPerRound

\* the experiment ended with wins and losses recorded
ExperimentEndedWithWinsAndLosses ==
    /\ ExperimentDone
    /\ totals[1] + totals[2] + totals[3] = 12 + Rounds * PullsPerRound
    /\ \E k \in DOMAIN arms : nwins[k] > 0
    /\ \E k \in DOMAIN arms : npulled[k] > nwins[k]

(***************************************************************************)
(* Properties of the convergence cell (checked under SpecConverge)         *)
(***************************************************************************)
\* an ApproxPi as __init__ leaves it: counters at 0, an empty log and a
\* generator nothing has been drawn from
FreshApproxPi(o) ==
    /\ o.inside = 0
    /\ o.total = 0
    /\ o.log = <<>>
    /\ o.pointgenerator.state = "created"
    /\ o.pointgenerator.yielded = 0

\* C21: the "threads" of the convergence cell are sequential, independent
\* runs.  A step constructs at most one ApproxPi, and only while no run is
\* in progress; the new instance starts with inside = 0, total = 0, an
\* empty log and a point generator of its own (it has yielded exactly the
\* points this instance counted); no step changes the counters, log or
\* generator of an instance of an earlier iteration; avg_result holds one
\* value per finished iteration, the last entry of that iteration's log,
\* and exactly `threads` values once the loop is over.
ThreadsAreIndependentRuns ==
    [][/\ Len(instances') \in {Len(instances), Len(instances) + 1}
       /\ Len(instances') = Len(instances) + 1
            => /\ cell # "running"
               /\ FreshApproxPi(instances'[Len(instances')])
       /\ \A k \in 1..Len(instances') :
            /\ k < Len(instances') => instances'[k] = instances[k]
            /\ instances'[k].pointgenerator.yielded = instances'[k].total
       /\ Len(avg_result') = thread'
       /\ \A k \in 1..Len(avg_result') :
            /\ k <= Len(instances')
            /\ instances'[k].log # <<>>
            /\ avg_result'[k]
                 = instances'[k].log[Len(instances'[k].log)]
       /\ cell' = "done"
            => Len(avg_result') = threads /\ Len(instances') = threads
      ]_vars

\* the cell is over and two of its runs ended with different counters
\* and kept different values
ThreadsEndedApart ==
    /\ cell = "done"
    /\ Len(avg_result) = threads
    /\ \E k, l \in 1..Len(instances) :
          /\ instances[k].inside # instances[l].inside
          /\ avg_result[k] # avg_result[l]


====
